---- MODULE Spec2Model ----
(***************************************************************************)
(* Payment orchestration of the QRIS point-of-sale backend.                *)
(*                                                                         *)
(* The model follows PaymentUseCase (GenerateQRIS, GetPaymentStatus,       *)
(* RefreshQRIS, HandlePaymentNotification) and                             *)
(* TransactionUseCase.CancelTransaction over the payments, qris_codes and  *)
(* transactions tables.  Every handler is split at its I/O calls: one      *)
(* atomic step is one repository or gateway call together with the local   *)
(* computation that follows it up to the next call, so concurrent requests *)
(* interleave exactly where the Go code can be preempted by another        *)
(* request's storage access.                                               *)
(*                                                                         *)
(* One transaction row is modelled; payment and QR rows carry identifiers  *)
(* drawn nondeterministically (uuid.New), and the lookups order by primary *)
(* key as gorm's First does.  The clock is in minutes.                     *)
(***************************************************************************)
EXTENDS Integers, FiniteSets, Sequences, TLC

\* ---------------------------------------------------------------- bounds
NumProcs == 2          \* concurrent request handlers
MaxOps   == 3          \* handler calls started in one behaviour
MaxPay   == 2          \* distinct payment identifiers
MaxQR    == 2          \* distinct QR code identifiers
MaxTicks == 1          \* clock advances in one behaviour
SeqMaxOps   == 4       \* calls in a behaviour with one request at a time
SeqMaxTicks == 2       \* clock advances in such a behaviour
ClockStep == 15        \* minutes per clock advance
MaxProducts == 1       \* products on sale
MaxQty == 2            \* largest quantity of one product in the cart
MaxItems == 2          \* longest Items list of a Transaction entity in memory
EditMaxOps == 2        \* payment and cancel calls beside the cart edits

\* ------------------------------------------------------ program constants
DefaultExpiryMin == 10

\* amounts are decimal(10,2) columns: counted in hundredths of a unit
Scale == 100

Procs  == 1..NumProcs
PayIds == 1..MaxPay
QrIds  == 1..MaxQR

NoTime == -1

\* transaction_status values the gateway can report (midtrans vocabulary);
\* "authorize" stands for every value outside the switch of GetPaymentStatus
GatewayStatuses ==
    {"settlement", "capture", "pending", "deny", "cancel", "expire", "authorize"}

\* request.ExpiryMinutes values sent by callers
ExpiryInputs == {0}

\* statuses covered by idx_unique_pending_payment_per_transaction
UniqueIndexStatuses == {"pending", "success"}

TerminalStatuses == {"success", "failed", "cancelled"}

VARIABLES
    now,        \* time.Now(), minutes
    tx,         \* the transactions row
    payments,   \* payments table: id -> row (id 0: no such row)
    qris,       \* qris_codes table: id -> row (id 0: no such row)
    proc,       \* per request handler: position and local variables
    charges,    \* charge requests accepted by the gateway so far
    ops,        \* handler calls started so far
    limits,     \* the run's handlers, calls and clock advances (fixed by Init)
    items,      \* transaction_items table: product -> row (quantity 0: no row)
    totals,     \* amount columns of the transactions row
    cart,       \* per request handler: position in a cart or charge-request call
    entity      \* a Transaction entity in memory and the last method called on it

\* the cart of the transaction and the handlers working on it
cartVars == <<items, totals, cart, entity>>

\* the payment side
payVars == <<now, tx, payments, qris, proc, charges, ops, limits>>

vars == <<now, tx, payments, qris, proc, charges, ops, limits, cartVars>>

\* ------------------------------------------------------------- entities
NoPay == [id |-> 0, status |-> "none", expiresAt |-> 0, externalID |-> "",
          externalResponse |-> "", paidAt |-> NoTime, orderID |-> NoTime,
          deleted |-> FALSE]

NoQR == [id |-> 0, paymentID |-> 0, code |-> 0, expiresAt |-> 0]

NoTx == [status |-> "none"]

NoRes == [err |-> "", pay |-> NoPay, qr |-> NoQR, status |-> "", externalID |-> ""]

\* entities.NewPayment; the identifier is drawn when the row is inserted
NewPayment(t, expiryMinutes) ==
    [NoPay EXCEPT !.status = "pending", !.expiresAt = t + expiryMinutes]

IsExpired(p, t) == t > p.expiresAt

CanBeProcessed(p, t) == p.status = "pending" /\ ~IsExpired(p, t)

MarkAsSuccess(p, externalID, externalResponse, t) ==
    [p EXCEPT !.status = "success", !.externalID = externalID,
              !.externalResponse = externalResponse, !.paidAt = t]

MarkAsFailed(p, externalResponse) ==
    [p EXCEPT !.status = "failed", !.externalResponse = externalResponse]

MarkAsExpired(p) == [p EXCEPT !.status = "expired"]

\* entities.NewQRISCode; the identifier is drawn when the row is inserted
NewQRISCode(paymentID, qrCode, t, expiryMinutes) ==
    [id |-> 0, paymentID |-> paymentID, code |-> qrCode,
     expiresAt |-> t + expiryMinutes]

\* Transaction.MarkAsPaid / Transaction.Cancel: the error is the unchanged row
MarkAsPaid(t) == IF t.status # "pending" THEN t ELSE [t EXCEPT !.status = "paid"]

Cancel(t) == IF t.status # "pending" THEN t ELSE [t EXCEPT !.status = "cancelled"]

\* ----------------------------------------------------------- repository
Min(S) == CHOOSE x \in S : \A y \in S : x <= y

LivePayments(rows) == {i \in PayIds : rows[i].id # 0 /\ ~rows[i].deleted}

\* First() orders by primary key and skips soft-deleted rows
GetPaymentByTransactionID(rows) ==
    IF LivePayments(rows) = {} THEN NoPay ELSE rows[Min(LivePayments(rows))]

GetQRISCodeByPaymentID(rows, paymentID) ==
    LET S == {i \in QrIds : rows[i].id # 0 /\ rows[i].paymentID = paymentID}
    IN  IF S = {} THEN NoQR ELSE rows[Min(S)]

\* variant for sensitivity analysis: an index over pending rows only
UniqueViolationPendingOnly(rows, p) ==
    /\ p.status = "pending"
    /\ ~p.deleted
    /\ \E i \in LivePayments(rows) \ {p.id} : rows[i].status = "pending"

\* the partial unique index rejects a second live pending/success row
UniqueViolation(rows, p) ==
    /\ p.status \in UniqueIndexStatuses
    /\ ~p.deleted
    /\ \E i \in LivePayments(rows) \ {p.id} : rows[i].status \in UniqueIndexStatuses

\* Save(): all columns of the row are written from the entity
UpdatePayment(rows, p) ==
    IF UniqueViolation(rows, p) THEN rows ELSE [rows EXCEPT ![p.id] = p]

FreePayIds == {i \in PayIds : payments[i].id = 0}
FreeQrIds  == {i \in QrIds : qris[i].id = 0}

\* ------------------------------------------------------------- handlers
\* pending payments that can still be processed, as the table holds them now
ProcessableNow ==
    {i \in LivePayments(payments) : CanBeProcessed(payments[i], now)}

\* pending payments whose expiry has passed
LapsedNow ==
    {i \in LivePayments(payments) :
        payments[i].status = "pending" /\ IsExpired(payments[i], now)}

TerminalNow == {i \in LivePayments(payments) : payments[i].status \in TerminalStatuses}

\* What a call found when it looked its payment up (kept for the properties only):
\* the row loaded and its QR code, the row counts, the transaction status and
\* the payments by class.
NoPre == [ent |-> NoPay, q |-> 0, pays |-> 0, qrs |-> 0, tx |-> "none",
          live |-> {}, lapsed |-> {}, terminal |-> {}]

Found ==
    LET e == GetPaymentByTransactionID(payments) IN
    [ent |-> e, q |-> GetQRISCodeByPaymentID(qris, e.id).id,
     pays |-> Cardinality({i \in PayIds : payments[i].id # 0}),
     qrs |-> Cardinality({j \in QrIds : qris[j].id # 0}),
     tx |-> tx.status,
     live |-> ProcessableNow, lapsed |-> LapsedNow, terminal |-> TerminalNow]

\* the amount columns of a transactions row not loaded yet
NoAmounts == [total |-> 0, tax |-> 0, discount |-> 0]

Idle == [pc |-> "idle", op |-> "none", ent |-> NoPay, qr |-> NoQR, txl |-> NoTx,
         amounts |-> NoAmounts,
         expiry |-> 0, orderNow |-> NoTime, code |-> 0, newStatus |-> "",
         gw |-> "", res |-> NoRes,
         charged |-> FALSE, conflict |-> FALSE, wrote |-> {}, pre |-> NoPre]

\* a handler returns: locals are dropped, the response and the ghosts stay
Return(r, result) ==
    [Idle EXCEPT !.pc = "done", !.op = r.op, !.res = result, !.gw = r.gw,
                 !.charged = r.charged, !.conflict = r.conflict,
                 !.wrote = r.wrote, !.pre = r.pre]

Fail(r, e) == Return(r, [NoRes EXCEPT !.err = e])

\* ------------------------------------------------------------------ cart
Products == 1..MaxProducts

\* products.price: 1.50, 2.00, ...
Price(pr) == (Scale \div 2) * (pr + 2)

NoItem == [unitPrice |-> 0, quantity |-> 0, totalPrice |-> 0]

\* the TransactionItem built by AddItemToTransaction and Transaction.AddItem
NewItem(pr, q) ==
    [unitPrice |-> Price(pr), quantity |-> q, totalPrice |-> Price(pr) * q]

\* the sum of TotalPrice over the item rows of the products in S
RECURSIVE Subtotal(_, _)
Subtotal(rows, S) ==
    IF S = {} THEN 0
    ELSE LET pr == CHOOSE x \in S : TRUE
         IN  rows[pr].totalPrice + Subtotal(rows, S \ {pr})

\* Transaction.calculateTotal and recalculateTransaction
CalculateTotal(rows, discount, tax) == Subtotal(rows, Products) - discount + tax

\* a Transaction loaded with its items
NoCartTx == [status |-> "none", total |-> 0, tax |-> 0, discount |-> 0,
             items |-> [pr \in Products |-> NoItem]]

\* the product entries of mapTransactionItemsToQRISItems, first n products
RECURSIVE ItemLines(_, _)
ItemLines(rows, n) ==
    IF n = 0 THEN <<>>
    ELSE ItemLines(rows, n - 1) \o
         (IF rows[n].quantity > 0
          THEN <<[price |-> rows[n].unitPrice, quantity |-> rows[n].quantity]>>
          ELSE <<>>)

\* variant for sensitivity analysis: the discount entry is not negated
mapItemsDiscountAdded(t) ==
    ItemLines(t.items, MaxProducts)
    \o (IF t.tax > 0 THEN <<[price |-> t.tax, quantity |-> 1]>> ELSE <<>>)
    \o (IF t.discount > 0 THEN <<[price |-> t.discount, quantity |-> 1]>>
        ELSE <<>>)

\* PaymentUseCase.mapTransactionItemsToQRISItems
mapTransactionItemsToQRISItems(t) ==
    ItemLines(t.items, MaxProducts)
    \o (IF t.tax > 0 THEN <<[price |-> t.tax, quantity |-> 1]>> ELSE <<>>)
    \o (IF t.discount > 0 THEN <<[price |-> -t.discount, quantity |-> 1]>>
        ELSE <<>>)

\* Go's int64(x) of a float64 amount: the fraction is dropped, towards zero
ToInt64(a) == IF a >= 0 THEN a \div Scale ELSE -((-a) \div Scale)

\* the sum of price times quantity over a list of line items
RECURSIVE LineSum(_)
LineSum(lines) ==
    IF lines = <<>> THEN 0
    ELSE Head(lines).price * Head(lines).quantity + LineSum(Tail(lines))

\* payment.QRISRequest: gross amount and line items
NoReq == [gross |-> 0, lines |-> <<>>]

\* MidtransClient.GenerateQRIS: gross_amount and each price through int64()
ChargeRequest(req) ==
    [gross |-> ToInt64(req.gross),
     lines |-> [k \in 1..Len(req.lines) |->
                  [price |-> ToInt64(req.lines[k].price),
                   quantity |-> req.lines[k].quantity]]]

\* fits: whether the product found could supply the quantity asked for;
\* payAmount: the Amount of the Payment built by NewPayment
CartIdle == [pc |-> "idle", op |-> "none", product |-> 0, quantity |-> 0,
             fits |-> TRUE, payAmount |-> 0, err |-> "",
             t |-> NoCartTx, sum |-> 0, req |-> NoReq, wire |-> NoReq]

\* the total the point-of-sale client computes for the cart it shows:
\* subtotal plus ten percent tax (calculateSummary), sent as request.Amount
ClientTotal(rows) == Subtotal(rows, Products) + Subtotal(rows, Products) \div 10

\* a transaction created with one item of the first product
OneItemCart ==
    /\ items = [pr \in Products |-> IF pr = 1 THEN NewItem(1, 1) ELSE NoItem]
    /\ totals = [total |-> Price(1), tax |-> 0, discount |-> 0]
    /\ cart = [p \in Procs |-> CartIdle]


\* ------------------------------------------- the Transaction entity
\* a Product as the entity methods see it
ProductInputs == [isActive : BOOLEAN, stock : 0..MaxQty]

IsAvailable(product) == product.isActive /\ product.stock > 0

CanFulfillQuantity(product, quantity) == product.stock >= quantity

\* entities.NewTransaction
NewTransaction ==
    [status |-> "pending", items |-> <<>>, discount |-> 0, tax |-> 0, total |-> 0]

\* Transaction.getSubtotal: the sum of TotalPrice over the Items list
RECURSIVE getSubtotal(_)
getSubtotal(list) ==
    IF list = <<>> THEN 0 ELSE Head(list).totalPrice + getSubtotal(Tail(list))

\* Transaction.calculateTotal
calculateTotal(t) ==
    [t EXCEPT !.total = getSubtotal(t.items) - t.discount + t.tax]

\* the Items list without its first item of the product
RECURSIVE WithoutFirst(_, _)
WithoutFirst(list, pr) ==
    IF list = <<>> THEN <<>>
    ELSE IF Head(list).product = pr THEN Tail(list)
    ELSE <<Head(list)>> \o WithoutFirst(Tail(list), pr)

\* the result of an entity method: the entity afterwards and the error
Done(t) == [t |-> t, err |-> ""]
Rejected(t, e) == [t |-> t, err |-> e]

\* Transaction.AddItem
TransactionAddItem(t, pr, product, quantity) ==
    IF ~IsAvailable(product) THEN Rejected(t, "product is not available")
    ELSE IF ~CanFulfillQuantity(product, quantity)
      THEN Rejected(t, "insufficient stock")
    ELSE Done(calculateTotal([t EXCEPT !.items =
            Append(@, [product |-> pr, unitPrice |-> Price(pr),
                       quantity |-> quantity,
                       totalPrice |-> Price(pr) * quantity])]))

\* Transaction.RemoveItem
TransactionRemoveItem(t, pr) ==
    Done(calculateTotal([t EXCEPT !.items = WithoutFirst(@, pr)]))

\* Transaction.ApplyDiscount
ApplyDiscount(t, discount) ==
    IF discount < 0 THEN Rejected(t, "discount cannot be negative")
    ELSE IF discount > getSubtotal(t.items)
      THEN Rejected(t, "discount cannot exceed subtotal")
    ELSE Done(calculateTotal([t EXCEPT !.discount = discount]))

\* Transaction.ApplyTax: the rate is a percentage
ApplyTax(t, taxRate) ==
    IF taxRate < 0 THEN Rejected(t, "tax rate cannot be negative")
    ELSE Done(calculateTotal([t EXCEPT !.tax =
            ((getSubtotal(t.items) - t.discount) * taxRate) \div 100]))

\* variant for sensitivity analysis: MarkAsExpired without the status check
TransactionMarkAsExpiredAnyStatus(t) == Done([t EXCEPT !.status = "expired"])

\* Transaction.Cancel, MarkAsPaid and MarkAsExpired with their errors
TransactionCancel(t) ==
    IF t.status # "pending"
    THEN Rejected(t, "only pending transactions can be cancelled")
    ELSE Done(Cancel(t))

TransactionMarkAsPaid(t) ==
    IF t.status # "pending"
    THEN Rejected(t, "only pending transactions can be marked as paid")
    ELSE Done(MarkAsPaid(t))

TransactionMarkAsExpired(t) ==
    IF t.status # "pending"
    THEN Rejected(t, "only pending transactions can be marked as expired")
    ELSE Done([t EXCEPT !.status = "expired"])

\* no method has been called on the entity yet
NoCall == [op |-> "none", product |-> [isActive |-> TRUE, stock |-> 0],
           quantity |-> 0, amount |-> 0]

NewEntity == [t |-> NewTransaction, err |-> "", call |-> NoCall]

\* the state after construction: a pending transaction and no payment
Empty ==
    /\ now = 0
    /\ tx = [status |-> "pending"]
    /\ payments = [i \in PayIds |-> NoPay]
    /\ qris = [i \in QrIds |-> NoQR]
    /\ proc = [p \in Procs |-> Idle]
    /\ charges = 0
    /\ ops = 0
    /\ entity = NewEntity

Init ==
    /\ Empty
    /\ OneItemCart
    /\ limits = [procs |-> Procs, ops |-> MaxOps, ticks |-> MaxTicks]

InitSeq ==
    /\ Empty
    /\ OneItemCart
    /\ limits = [procs |-> {1}, ops |-> SeqMaxOps, ticks |-> SeqMaxTicks]

Tick ==
    /\ now < limits.ticks * ClockStep
    /\ now' = now + ClockStep
    /\ UNCHANGED <<tx, payments, qris, proc, charges, ops, limits, cartVars>>

\* a request is served by the lowest-numbered free handler
Started(p) ==
    /\ proc[p].pc = "idle"
    /\ ops < limits.ops
    /\ \A q \in Procs : q < p => proc[q].pc # "idle"

\* variant for sensitivity analysis: the transaction's status is not checked
GenStartAnyStatus(p) ==
    /\ Started(p)
    /\ \E e \in ExpiryInputs, known \in BOOLEAN :
         LET t == IF known THEN tx ELSE NoTx
             r == [Idle EXCEPT !.op = "gen", !.pre.tx = t.status]
         IN
         proc' = [proc EXCEPT ![p] =
            IF t = NoTx THEN Fail(r, "TransactionNotFound")
            ELSE [r EXCEPT !.pc = "gen_lookup", !.txl = t,
                           !.expiry = IF e <= 0 THEN DefaultExpiryMin ELSE e]]
    /\ ops' = ops + 1
    /\ UNCHANGED <<now, tx, payments, qris, charges, limits, cartVars>>

\* ---- PaymentUseCase.GenerateQRIS
\* GetByIDWithDetails of the transaction id in the request (known or not)
\* and the status check
GenStart(p) ==
    /\ Started(p)
    /\ \E e \in ExpiryInputs, known \in BOOLEAN :
         LET t == IF known THEN tx ELSE NoTx
             r == [Idle EXCEPT !.op = "gen", !.pre.tx = t.status]
         IN
         proc' = [proc EXCEPT ![p] =
            IF t = NoTx THEN Fail(r, "TransactionNotFound")
            ELSE IF t.status # "pending" THEN Fail(r, "InvalidState")
            ELSE [r EXCEPT !.pc = "gen_lookup", !.txl = t,
                           !.expiry = IF e <= 0 THEN DefaultExpiryMin ELSE e]]
    /\ ops' = ops + 1
    /\ UNCHANGED <<now, tx, payments, qris, charges, limits, cartVars>>

\* NewPayment, the order id and the QRIS request, built before the charge
Prepare(r) ==
    [r EXCEPT !.pc = "gen_charge", !.orderNow = now,
              !.ent = [NewPayment(now, r.expiry) EXCEPT !.orderID = now]]

\* GetPaymentByTransactionID and the decision on the existing payment
GenLookup(p) ==
    /\ proc[p].pc = "gen_lookup"
    /\ LET existing == GetPaymentByTransactionID(payments)
           r == [proc[p] EXCEPT !.pre = Found]
       IN  proc' = [proc EXCEPT ![p] =
             IF existing.id # 0 /\ CanBeProcessed(existing, now)
               THEN [r EXCEPT !.pc = "gen_existqr", !.ent = existing]
             ELSE IF existing.id # 0 /\ IsExpired(existing, now)
               THEN [r EXCEPT !.pc = "gen_markexp", !.ent = MarkAsExpired(existing)]
             ELSE Prepare(r)]
    /\ UNCHANGED <<now, tx, payments, qris, charges, ops, limits, cartVars>>

\* the existing payment is still valid: GetQRISCodeByPaymentID and return
GenExistQR(p) ==
    /\ proc[p].pc = "gen_existqr"
    /\ proc' = [proc EXCEPT ![p] =
          Return(proc[p], [NoRes EXCEPT !.pay = proc[p].ent,
                     !.qr = GetQRISCodeByPaymentID(qris, proc[p].ent.id)])]
    /\ UNCHANGED <<now, tx, payments, qris, charges, ops, limits, cartVars>>

\* UpdatePayment of the payment marked expired (its error is only logged)
GenMarkExpired(p) ==
    /\ proc[p].pc = "gen_markexp"
    /\ payments' = UpdatePayment(payments, proc[p].ent)
    /\ proc' = [proc EXCEPT ![p] = Prepare([proc[p] EXCEPT !.wrote = @ \cup {"payment"}])]
    /\ UNCHANGED <<now, tx, qris, charges, ops, limits, cartVars>>

\* variant for sensitivity analysis: a rejected charge does not end the call
GenChargeIgnoringError(p) ==
    /\ proc[p].pc = "gen_charge"
    /\ \E ok \in BOOLEAN :
         /\ charges' = IF ok THEN charges + 1 ELSE charges
         /\ proc' = [proc EXCEPT ![p].pc = "gen_insert",
                                 ![p].charged = TRUE,
                                 ![p].gw = IF ok THEN "" ELSE "error",
                                 ![p].code = IF ok THEN charges + 1 ELSE 0]
    /\ UNCHANGED <<now, tx, payments, qris, ops, limits, cartVars>>

\* MidtransClient.GenerateQRIS: the gateway accepts or rejects the charge
GenCharge(p) ==
    /\ proc[p].pc = "gen_charge"
    /\ \E ok \in BOOLEAN :
         IF ok
         THEN /\ charges' = charges + 1
              /\ proc' = [proc EXCEPT ![p].pc = "gen_insert",
                                      ![p].charged = TRUE,
                                      ![p].code = charges + 1]
         ELSE /\ charges' = charges
              /\ proc' = [proc EXCEPT ![p] =
                    Fail([proc[p] EXCEPT !.charged = TRUE, !.gw = "error"],
                         "PaymentGenerationFailed")]
    /\ UNCHANGED <<now, tx, payments, qris, ops, limits, cartVars>>

\* CreatePayment: rejected by the unique index, or inserted under a new uuid
GenInsert(p) ==
    /\ proc[p].pc = "gen_insert"
    /\ IF UniqueViolation(payments, proc[p].ent)
       THEN /\ proc' = [proc EXCEPT ![p].pc = "gen_reread", ![p].conflict = TRUE]
            /\ UNCHANGED payments
       ELSE \E i \in FreePayIds :
            /\ payments' = [payments EXCEPT ![i] = [proc[p].ent EXCEPT !.id = i]]
            /\ proc' = [proc EXCEPT ![p].pc = "gen_qr", ![p].ent.id = i,
                                    ![p].wrote = @ \cup {"payment"}]
    /\ UNCHANGED <<now, tx, qris, charges, ops, limits, cartVars>>

\* after the conflict: GetPaymentByTransactionID
GenReread(p) ==
    /\ proc[p].pc = "gen_reread"
    /\ LET existing == GetPaymentByTransactionID(payments) IN
       proc' = [proc EXCEPT ![p] =
          IF existing.id = 0 THEN Fail(proc[p], "DuplicatePayment")
          ELSE [proc[p] EXCEPT !.pc = "gen_rereadqr", !.ent = existing]]
    /\ UNCHANGED <<now, tx, payments, qris, charges, ops, limits, cartVars>>

\* after the conflict: GetQRISCodeByPaymentID, whose not-found is an error
GenRereadQR(p) ==
    /\ proc[p].pc = "gen_rereadqr"
    /\ LET q == GetQRISCodeByPaymentID(qris, proc[p].ent.id) IN
       proc' = [proc EXCEPT ![p] =
          IF q.id = 0 THEN Fail(proc[p], "DuplicatePayment")
          ELSE Return(proc[p], [NoRes EXCEPT !.pay = proc[p].ent, !.qr = q])]
    /\ UNCHANGED <<now, tx, payments, qris, charges, ops, limits, cartVars>>

\* NewQRISCode and CreateQRISCode, which storage may fail
GenQR(p) ==
    /\ proc[p].pc = "gen_qr"
    /\ \E ok \in BOOLEAN :
         IF ok
         THEN \E j \in FreeQrIds :
              LET q == [NewQRISCode(proc[p].ent.id, proc[p].code, now,
                                    proc[p].expiry) EXCEPT !.id = j]
              IN  /\ qris' = [qris EXCEPT ![j] = q]
                  /\ proc' = [proc EXCEPT ![p] =
                        Return([proc[p] EXCEPT !.wrote = @ \cup {"qr"}],
                               [NoRes EXCEPT !.pay = proc[p].ent, !.qr = q])]
         ELSE /\ qris' = qris
              /\ proc' = [proc EXCEPT ![p].pc = "gen_rollback"]
    /\ UNCHANGED <<now, tx, payments, charges, ops, limits, cartVars>>

\* DeletePayment (soft delete) as rollback, best effort
GenRollback(p) ==
    /\ proc[p].pc = "gen_rollback"
    /\ \E ok \in BOOLEAN :
         payments' = IF ok THEN [payments EXCEPT ![proc[p].ent.id].deleted = TRUE]
                     ELSE payments
    /\ proc' = [proc EXCEPT ![p] =
          Fail([proc[p] EXCEPT !.wrote = @ \cup {"payment"}], "QRISCodeNotSaved")]
    /\ UNCHANGED <<now, tx, qris, charges, ops, limits, cartVars>>

\* the HTTP handler has written the response; the goroutine ends
Finish(p) ==
    /\ proc[p].pc = "done"
    /\ proc' = [proc EXCEPT ![p] = Idle]
    /\ UNCHANGED <<now, tx, payments, qris, charges, ops, limits, cartVars>>


\* ---- PaymentUseCase.GetPaymentStatus

\* variant for sensitivity analysis: only success ends the status check
HasFinalStatusSuccessOnly(e) == e.status = "success"

\* Status != PaymentPending && Status != PaymentExpired, the test with which
\* GetPaymentStatus and RefreshQRIS recognise a payment that is settled
HasFinalStatus(e) == e.status # "pending" /\ e.status # "expired"

\* variant for sensitivity analysis: a lapsed payment is still asked about
StatusBeginWithoutExpiry(p) ==
    LET e == GetPaymentByTransactionID(payments)
        r == [Idle EXCEPT !.op = "status", !.pre = Found]
    IN  proc' = [proc EXCEPT ![p] =
          IF e.id = 0 THEN Fail(r, "PaymentNotFound")
          ELSE IF HasFinalStatus(e)
            THEN Return(r, [NoRes EXCEPT !.status = e.status,
                                         !.externalID = e.externalID])
          ELSE IF e.orderID = NoTime
            THEN Return(r, [NoRes EXCEPT !.status = "pending"])
          ELSE [r EXCEPT !.pc = "gs_check", !.ent = e]]

\* GetPaymentByTransactionID, the terminal-status return and the expiry branch
StatusBegin(p) ==
    LET e == GetPaymentByTransactionID(payments)
        r == [Idle EXCEPT !.op = "status", !.pre = Found]
    IN  proc' = [proc EXCEPT ![p] =
          IF e.id = 0 THEN Fail(r, "PaymentNotFound")
          ELSE IF HasFinalStatus(e)
            THEN Return(r, [NoRes EXCEPT !.status = e.status,
                                         !.externalID = e.externalID])
          ELSE IF IsExpired(e, now)
            THEN IF e.status # "expired"
                   THEN [r EXCEPT !.pc = "gs_expire", !.ent = MarkAsExpired(e)]
                   ELSE Return(r, [NoRes EXCEPT !.status = "expired"])
          ELSE IF e.orderID = NoTime
            THEN Return(r, [NoRes EXCEPT !.status = "pending"])
          ELSE [r EXCEPT !.pc = "gs_check", !.ent = e]]

\* a GetPaymentStatus request arrives
StatusStart(p) ==
    /\ Started(p)
    /\ StatusBegin(p)
    /\ ops' = ops + 1
    /\ UNCHANGED <<now, tx, payments, qris, charges, limits, cartVars>>

\* UpdatePayment of the payment marked expired (its error is only logged)
StatusExpire(p) ==
    /\ proc[p].pc = "gs_expire"
    /\ payments' = UpdatePayment(payments, proc[p].ent)
    /\ proc' = [proc EXCEPT ![p] =
          Return([proc[p] EXCEPT !.wrote = @ \cup {"payment"}],
                 [NoRes EXCEPT !.status = "expired"])]
    /\ UNCHANGED <<now, tx, qris, charges, ops, limits, cartVars>>

\* variant for sensitivity analysis: expire is not among the failure values
MapStatusWithoutExpire(g) ==
    CASE g \in {"settlement", "capture"} -> "success"
      [] g = "pending" -> "pending"
      [] g \in {"deny", "cancel"} -> "failed"
      [] OTHER -> "pending"

\* the switch over midtransStatus.TransactionStatus
MapStatus(g) ==
    CASE g \in {"settlement", "capture"} -> "success"
      [] g = "pending" -> "pending"
      [] g \in {"deny", "cancel", "expire"} -> "failed"
      [] OTHER -> "pending"

\* variant for sensitivity analysis: a gateway failure fails the status call
StatusCheckFailsOnError(p) ==
    /\ proc[p].pc = "gs_check"
    /\ \E g \in GatewayStatuses \cup {"error"} :
         LET r == [proc[p] EXCEPT !.gw = g, !.newStatus = MapStatus(g)] IN
         proc' = [proc EXCEPT ![p] =
           IF g = "error" THEN Fail(r, "GatewayError")
           ELSE IF MapStatus(g) = "success"
             THEN [r EXCEPT !.pc = "gs_txread",
                            !.ent = MarkAsSuccess(r.ent, "mt-id", "msg", now)]
           ELSE IF MapStatus(g) = "failed"
             THEN [r EXCEPT !.pc = "gs_write", !.ent = MarkAsFailed(r.ent, "msg")]
           ELSE [r EXCEPT !.pc = "gs_write"]]
    /\ UNCHANGED <<now, tx, payments, qris, charges, ops, limits, cartVars>>

\* MidtransClient.GetTransactionStatus and the status switch on the entity
StatusCheck(p) ==
    /\ proc[p].pc = "gs_check"
    /\ \E g \in GatewayStatuses \cup {"error"} :
         LET r == [proc[p] EXCEPT !.gw = g, !.newStatus = MapStatus(g)] IN
         proc' = [proc EXCEPT ![p] =
           IF g = "error" THEN Return(r, [NoRes EXCEPT !.status = "pending"])
           ELSE IF MapStatus(g) = "success"
             THEN [r EXCEPT !.pc = "gs_txread",
                            !.ent = MarkAsSuccess(r.ent, "mt-id", "msg", now)]
           ELSE IF MapStatus(g) = "failed"
             THEN [r EXCEPT !.pc = "gs_write", !.ent = MarkAsFailed(r.ent, "msg")]
           ELSE [r EXCEPT !.pc = "gs_write"]]
    /\ UNCHANGED <<now, tx, payments, qris, charges, ops, limits, cartVars>>

\* transactionRepo.GetByID and MarkAsPaid, whose error is dropped
StatusTxRead(p) ==
    /\ proc[p].pc = "gs_txread"
    /\ proc' = [proc EXCEPT ![p].pc = "gs_txwrite", ![p].txl = MarkAsPaid(tx),
                            ![p].amounts = totals]
    /\ UNCHANGED <<now, tx, payments, qris, charges, ops, limits, cartVars>>

\* transactionRepo.Update: Save() writes the whole row, amounts included
StatusTxWrite(p) ==
    /\ proc[p].pc = "gs_txwrite"
    /\ tx' = proc[p].txl
    /\ totals' = proc[p].amounts
    /\ proc' = [proc EXCEPT ![p].pc = "gs_write", ![p].wrote = @ \cup {"tx"}]
    /\ UNCHANGED <<now, payments, qris, charges, ops, limits, items, cart, entity>>

\* UpdatePayment of the entity read at the start (its error is only logged)
StatusWrite(p) ==
    /\ proc[p].pc = "gs_write"
    /\ payments' = UpdatePayment(payments, proc[p].ent)
    /\ proc' = [proc EXCEPT ![p] =
          Return([proc[p] EXCEPT !.wrote = @ \cup {"payment"}],
                 [NoRes EXCEPT !.status = proc[p].newStatus, !.externalID = "mt-id"])]
    /\ UNCHANGED <<now, tx, qris, charges, ops, limits, cartVars>>


\* ---- PaymentUseCase.HandlePaymentNotification: logs and acknowledges
HandlePaymentNotification(p) ==
    /\ Started(p)
    /\ \E g \in GatewayStatuses :
         proc' = [proc EXCEPT ![p] =
            Return([Idle EXCEPT !.op = "notify", !.gw = g, !.pre = Found],
                   NoRes)]
    /\ ops' = ops + 1
    /\ UNCHANGED <<now, tx, payments, qris, charges, limits, cartVars>>


\* ---- PaymentUseCase.RefreshQRIS
\* variant for sensitivity analysis: the refresh goes ahead whatever the status
RefreshStartAnyStatus(p) ==
    /\ Started(p)
    /\ LET e == GetPaymentByTransactionID(payments)
           r == [Idle EXCEPT !.op = "refresh", !.pre = Found]
       IN  proc' = [proc EXCEPT ![p] =
             IF e.id = 0 THEN Fail(r, "PaymentNotFound")
             ELSE [r EXCEPT !.pc = "rf_tx", !.ent = e]]
    /\ ops' = ops + 1
    /\ UNCHANGED <<now, tx, payments, qris, charges, limits, cartVars>>

\* GetPaymentByTransactionID and the status check
RefreshStart(p) ==
    /\ Started(p)
    /\ LET e == GetPaymentByTransactionID(payments)
           r == [Idle EXCEPT !.op = "refresh", !.pre = Found]
       IN  proc' = [proc EXCEPT ![p] =
             IF e.id = 0 THEN Fail(r, "PaymentNotFound")
             ELSE IF HasFinalStatus(e)
               THEN Fail(r, "InvalidState")
             ELSE [r EXCEPT !.pc = "rf_tx", !.ent = e]]
    /\ ops' = ops + 1
    /\ UNCHANGED <<now, tx, payments, qris, charges, limits, cartVars>>

\* GetByIDWithDetails, then the order id from time.Now()
RefreshTx(p) ==
    /\ proc[p].pc = "rf_tx"
    /\ proc' = [proc EXCEPT ![p].pc = "rf_charge", ![p].txl = tx,
                            ![p].orderNow = now, ![p].ent.orderID = now]
    /\ UNCHANGED <<now, tx, payments, qris, charges, ops, limits, cartVars>>

\* MidtransClient.GenerateQRIS, then expiry, status and external fields reset
RefreshCharge(p) ==
    /\ proc[p].pc = "rf_charge"
    /\ \E ok \in BOOLEAN :
         IF ok
         THEN /\ charges' = charges + 1
              /\ proc' = [proc EXCEPT ![p] =
                    [proc[p] EXCEPT !.pc = "rf_qr", !.charged = TRUE,
                        !.code = charges + 1,
                        !.ent = [proc[p].ent EXCEPT
                                   !.expiresAt = proc[p].orderNow + DefaultExpiryMin,
                                   !.status = "pending", !.externalID = "",
                                   !.externalResponse = ""]]]
         ELSE /\ charges' = charges
              /\ proc' = [proc EXCEPT ![p] =
                    Fail([proc[p] EXCEPT !.charged = TRUE], "PaymentGenerationFailed")]
    /\ UNCHANGED <<now, tx, payments, qris, ops, limits, cartVars>>

\* variant for sensitivity analysis: the existing QR code keeps its expiry
RefreshQRKeepExpiry(p) ==
    /\ proc[p].pc = "rf_qr"
    /\ LET q == GetQRISCodeByPaymentID(qris, proc[p].ent.id) IN
       proc' = [proc EXCEPT ![p].pc = "rf_pay", ![p].qr =
          IF q.id = 0
          THEN NewQRISCode(proc[p].ent.id, proc[p].code, now, DefaultExpiryMin)
          ELSE [q EXCEPT !.code = proc[p].code]]
    /\ UNCHANGED <<now, tx, payments, qris, charges, ops, limits, cartVars>>

\* GetQRISCodeByPaymentID: update the entity found, or build a new one
RefreshQR(p) ==
    /\ proc[p].pc = "rf_qr"
    /\ LET q == GetQRISCodeByPaymentID(qris, proc[p].ent.id) IN
       proc' = [proc EXCEPT ![p].pc = "rf_pay", ![p].qr =
          IF q.id = 0
          THEN NewQRISCode(proc[p].ent.id, proc[p].code, now, DefaultExpiryMin)
          ELSE [q EXCEPT !.code = proc[p].code, !.expiresAt = proc[p].ent.expiresAt]]
    /\ UNCHANGED <<now, tx, payments, qris, charges, ops, limits, cartVars>>

\* UpdatePayment, whose error ends the call
RefreshPay(p) ==
    /\ proc[p].pc = "rf_pay"
    /\ IF UniqueViolation(payments, proc[p].ent)
       THEN /\ proc' = [proc EXCEPT ![p] = Fail(proc[p], "DuplicatePayment")]
            /\ UNCHANGED payments
       ELSE /\ payments' = UpdatePayment(payments, proc[p].ent)
            /\ proc' = [proc EXCEPT ![p].pc = "rf_save", ![p].wrote = @ \cup {"payment"}]
    /\ UNCHANGED <<now, tx, qris, charges, ops, limits, cartVars>>

\* the QR code write: a new entity becomes a new row, an existing one is
\* overwritten by UpdateQRISCode (Save)
RefreshSave(p) ==
    /\ proc[p].pc = "rf_save"
    /\ IF proc[p].qr.id = 0
       THEN \E j \in FreeQrIds :
            /\ qris' = [qris EXCEPT ![j] = [proc[p].qr EXCEPT !.id = j]]
            /\ proc' = [proc EXCEPT ![p] =
                  Return([proc[p] EXCEPT !.wrote = @ \cup {"qr"}],
                         [NoRes EXCEPT !.pay = proc[p].ent,
                                       !.qr = [proc[p].qr EXCEPT !.id = j]])]
       ELSE /\ qris' = [qris EXCEPT ![proc[p].qr.id] = proc[p].qr]
            /\ proc' = [proc EXCEPT ![p] =
                  Return([proc[p] EXCEPT !.wrote = @ \cup {"qr"}],
                         [NoRes EXCEPT !.pay = proc[p].ent, !.qr = proc[p].qr])]
    /\ UNCHANGED <<now, tx, payments, charges, ops, limits, cartVars>>


\* ---- TransactionUseCase.CancelTransaction
\* GetByID and Transaction.Cancel
CancelStart(p) ==
    /\ Started(p)
    /\ LET r == [Idle EXCEPT !.op = "cancel", !.pre = Found] IN
       proc' = [proc EXCEPT ![p] =
          IF tx.status # "pending" THEN Fail(r, "InvalidState")
          ELSE [r EXCEPT !.pc = "cx_write", !.txl = Cancel(tx),
                         !.amounts = totals]]
    /\ ops' = ops + 1
    /\ UNCHANGED <<now, tx, payments, qris, charges, limits, cartVars>>

\* transactionRepo.Update: Save() writes the whole row, amounts included
CancelWrite(p) ==
    /\ proc[p].pc = "cx_write"
    /\ tx' = proc[p].txl
    /\ totals' = proc[p].amounts
    /\ proc' = [proc EXCEPT ![p] = Return([proc[p] EXCEPT !.wrote = @ \cup {"tx"}], NoRes)]
    /\ UNCHANGED <<now, payments, qris, charges, ops, limits, items, cart, entity>>


Next ==
    \/ Tick
    \/ \E p \in limits.procs : GenStart(p)
    \/ \E p \in limits.procs : GenLookup(p)
    \/ \E p \in limits.procs : GenExistQR(p)
    \/ \E p \in limits.procs : GenMarkExpired(p)
    \/ \E p \in limits.procs : GenCharge(p)
    \/ \E p \in limits.procs : GenInsert(p)
    \/ \E p \in limits.procs : GenReread(p)
    \/ \E p \in limits.procs : GenRereadQR(p)
    \/ \E p \in limits.procs : GenQR(p)
    \/ \E p \in limits.procs : GenRollback(p)
    \/ \E p \in limits.procs : StatusStart(p)
    \/ \E p \in limits.procs : StatusExpire(p)
    \/ \E p \in limits.procs : StatusCheck(p)
    \/ \E p \in limits.procs : StatusTxRead(p)
    \/ \E p \in limits.procs : StatusTxWrite(p)
    \/ \E p \in limits.procs : StatusWrite(p)
    \/ \E p \in limits.procs : HandlePaymentNotification(p)
    \/ \E p \in limits.procs : RefreshStart(p)
    \/ \E p \in limits.procs : RefreshTx(p)
    \/ \E p \in limits.procs : RefreshCharge(p)
    \/ \E p \in limits.procs : RefreshQR(p)
    \/ \E p \in limits.procs : RefreshPay(p)
    \/ \E p \in limits.procs : RefreshSave(p)
    \/ \E p \in limits.procs : CancelStart(p)
    \/ \E p \in limits.procs : CancelWrite(p)
    \/ \E p \in limits.procs : Finish(p)

\* concurrent request handlers
Spec == Init /\ [][Next]_vars

\* one request at a time
SpecSeq == InitSeq /\ [][Next]_vars




\* ------------------------------------- methods of the Transaction entity
\* arguments callers pass to the entity methods
QtyInputs == -1..MaxQty
DiscountInputs == {-(Scale \div 2), Scale \div 2, 2 * Scale}
TaxRateInputs == {-10, 0, 10}

allButEntity == <<payVars, items, totals, cart>>

\* the entity after a method call, with the call and its error recorded
Called(result, call) == [t |-> result.t, err |-> result.err, call |-> call]

CallAddItem ==
    /\ Len(entity.t.items) < MaxItems
    /\ \E pr \in Products, product \in ProductInputs, q \in QtyInputs :
         entity' = Called(TransactionAddItem(entity.t, pr, product, q),
                          [NoCall EXCEPT !.op = "AddItem", !.product = product,
                                         !.quantity = q])
    /\ UNCHANGED allButEntity

CallRemoveItem ==
    /\ \E pr \in Products :
         entity' = Called(TransactionRemoveItem(entity.t, pr),
                          [NoCall EXCEPT !.op = "RemoveItem"])
    /\ UNCHANGED allButEntity

CallApplyDiscount ==
    /\ \E d \in DiscountInputs :
         entity' = Called(ApplyDiscount(entity.t, d),
                          [NoCall EXCEPT !.op = "ApplyDiscount", !.amount = d])
    /\ UNCHANGED allButEntity

CallApplyTax ==
    /\ \E rate \in TaxRateInputs :
         entity' = Called(ApplyTax(entity.t, rate),
                          [NoCall EXCEPT !.op = "ApplyTax", !.amount = rate])
    /\ UNCHANGED allButEntity

CallCancel ==
    /\ entity' = Called(TransactionCancel(entity.t), [NoCall EXCEPT !.op = "Cancel"])
    /\ UNCHANGED allButEntity

CallMarkAsPaid ==
    /\ entity' = Called(TransactionMarkAsPaid(entity.t),
                        [NoCall EXCEPT !.op = "MarkAsPaid"])
    /\ UNCHANGED allButEntity

CallMarkAsExpired ==
    /\ entity' = Called(TransactionMarkAsExpired(entity.t),
                        [NoCall EXCEPT !.op = "MarkAsExpired"])
    /\ UNCHANGED allButEntity

\* a new Transaction in memory; no request handler runs
InitEntity ==
    /\ Empty
    /\ OneItemCart
    /\ limits = [procs |-> {}, ops |-> 0, ticks |-> 0]

NextEntity ==
    \/ CallAddItem
    \/ CallRemoveItem
    \/ CallApplyDiscount
    \/ CallApplyTax
    \/ CallCancel
    \/ CallMarkAsPaid
    \/ CallMarkAsExpired

\* any sequence of method calls on one Transaction entity
SpecEntity == InitEntity /\ [][NextEntity]_vars

\* ------------------------------------------------- the polling client
\* PaymentStatusMonitor.checkPaymentStatus: the next GetPaymentStatus call of
\* a client that polls until it has received a status other than pending;
\* an error response is logged and the polling goes on
MonitorPoll(p) ==
    /\ proc[p].pc \in {"idle", "done"}
    /\ ~(/\ proc[p].op = "status"
         /\ proc[p].res.err = ""
         /\ proc[p].res.status # "pending")
    /\ StatusBegin(p)
    /\ UNCHANGED <<now, tx, payments, qris, charges, ops, limits, cartVars>>

\* one GenerateQRIS call, then clients that poll the payment status
InitPoll ==
    /\ Empty
    /\ OneItemCart
    /\ limits = [procs |-> Procs, ops |-> 1, ticks |-> MaxTicks]

\* the steps of handler p while clients poll; the one GenerateQRIS call
\* finds no payment, so its steps for an existing payment cannot occur
PollStep(p) ==
    \/ GenStart(p)
    \/ GenLookup(p)
    \/ GenCharge(p)
    \/ GenInsert(p)
    \/ GenQR(p)
    \/ GenRollback(p)
    \/ MonitorPoll(p)
    \/ StatusExpire(p)
    \/ StatusCheck(p)
    \/ StatusTxRead(p)
    \/ StatusTxWrite(p)
    \/ StatusWrite(p)

NextPoll ==
    \/ Tick
    \/ \E p \in Procs : PollStep(p)

\* every handler and every polling client keeps running
SpecPoll ==
    InitPoll /\ [][NextPoll]_vars /\ \A p \in Procs : WF_vars(PollStep(p))

\* ---------------------------------------------- cart and charge requests
\* discounts and tax rates (percent) a transaction is created with
Discounts == {0, Scale \div 2}
TaxRates  == {0, 10}

\* a pending transaction with any cart: item totals, discount and tax as
\* NewItem, ApplyDiscount and ApplyTax leave them, the total as calculateTotal
InitCart ==
    /\ Empty
    /\ limits = [procs |-> {}, ops |-> 0, ticks |-> 0]
    /\ cart = [p \in Procs |-> CartIdle]
    /\ \E qty \in [Products -> 0..MaxQty], d \in Discounts, rate \in TaxRates :
         LET rows == [pr \in Products |->
                        IF qty[pr] = 0 THEN NoItem ELSE NewItem(pr, qty[pr])]
             sub == Subtotal(rows, Products)
             tax == ((sub - d) * rate) \div 100
         IN  /\ d <= sub
             /\ items = rows
             /\ totals = [total |-> CalculateTotal(rows, d, tax),
                          tax |-> tax, discount |-> d]

\* ---- the charge request of GenerateQRIS and RefreshQRIS
\* GetByIDWithDetails: the query on the transactions row
ChargeLoadTx(p) ==
    /\ cart[p].pc = "idle"
    /\ \E amount \in {totals.total, ClientTotal(items)} :
         cart' = [cart EXCEPT ![p] =
            [CartIdle EXCEPT !.pc = "ch_items", !.op = "charge",
                             !.payAmount = amount,
                             !.t = [NoCartTx EXCEPT !.status = tx.status,
                                                    !.total = totals.total,
                                                    !.tax = totals.tax,
                                                    !.discount = totals.discount]]]
    /\ UNCHANGED <<payVars, entity, items, totals>>

\* GetByIDWithDetails: the Preload("Items") query that follows
ChargeLoadItems(p) ==
    /\ cart[p].pc = "ch_items"
    /\ cart' = [cart EXCEPT ![p].pc = "ch_send", ![p].t.items = items]
    /\ UNCHANGED <<payVars, entity, items, totals>>

\* the QRISRequest is built and MidtransClient.GenerateQRIS sends the charge
ChargeSend(p) ==
    /\ cart[p].pc = "ch_send"
    /\ LET req == [gross |-> cart[p].t.total,
                   lines |-> mapTransactionItemsToQRISItems(cart[p].t)]
       IN  cart' = [cart EXCEPT ![p].pc = "done", ![p].req = req,
                                ![p].wire = ChargeRequest(req)]
    /\ UNCHANGED <<payVars, entity, items, totals>>

\* the use case returns "cannot modify non-pending transaction"
NotPending(op) ==
    [CartIdle EXCEPT !.pc = "done", !.op = op,
                     !.err = "cannot modify non-pending transaction"]

\* ---- TransactionUseCase.AddItemToTransaction
\* GetByID, the status check, productRepo.GetByID and the item built
AddItemToTransaction(p) ==
    /\ cart[p].pc = "idle"
    /\ IF tx.status # "pending"
       THEN cart' = [cart EXCEPT ![p] = NotPending("add")]
       ELSE \E pr \in Products, q \in 1..MaxQty, product \in ProductInputs :
            /\ items[pr].quantity + q <= MaxQty
            /\ cart' = [cart EXCEPT ![p] =
                  [CartIdle EXCEPT !.pc = "add_write", !.op = "add",
                     !.product = pr, !.quantity = q,
                     !.fits = IsAvailable(product) /\ CanFulfillQuantity(product, q)]]
    /\ UNCHANGED <<payVars, entity, items, totals>>

\* transactionRepositoryImpl.AddItem: the quantity of an existing row grows
AddItem(p) ==
    /\ cart[p].pc = "add_write"
    /\ LET pr == cart[p].product
           q == items[pr].quantity + cart[p].quantity
       IN  /\ q <= MaxQty
           /\ items' = [items EXCEPT ![pr] =
                 IF items[pr].quantity > 0
                 THEN [items[pr] EXCEPT !.quantity = q,
                                        !.totalPrice = items[pr].unitPrice * q]
                 ELSE NewItem(pr, cart[p].quantity)]
    /\ cart' = [cart EXCEPT ![p].pc = "rc_items"]
    /\ UNCHANGED <<payVars, entity, totals>>

\* ---- TransactionUseCase.RemoveItemFromTransaction
RemoveItemFromTransaction(p) ==
    /\ cart[p].pc = "idle"
    /\ IF tx.status # "pending"
       THEN cart' = [cart EXCEPT ![p] = NotPending("remove")]
       ELSE \E pr \in Products :
            cart' = [cart EXCEPT ![p] =
               [CartIdle EXCEPT !.pc = "rm_write", !.op = "remove", !.product = pr]]
    /\ UNCHANGED <<payVars, entity, items, totals>>

\* transactionRepositoryImpl.RemoveItem
RemoveItem(p) ==
    /\ cart[p].pc = "rm_write"
    /\ items' = [items EXCEPT ![cart[p].product] = NoItem]
    /\ cart' = [cart EXCEPT ![p].pc = "rc_items"]
    /\ UNCHANGED <<payVars, entity, totals>>

\* ---- TransactionUseCase.UpdateItemQuantity
UpdateItemQuantity(p) ==
    /\ cart[p].pc = "idle"
    /\ IF tx.status # "pending"
       THEN cart' = [cart EXCEPT ![p] = NotPending("update")]
       ELSE \E pr \in Products, q \in 0..MaxQty :
            cart' = [cart EXCEPT ![p] =
               [CartIdle EXCEPT !.pc = "up_write", !.op = "update",
                                !.product = pr, !.quantity = q]]
    /\ UNCHANGED <<payVars, entity, items, totals>>

\* transactionRepositoryImpl.UpdateItemQuantity: a quantity of zero removes
\* the row, a missing row ends the call with the lookup's error
UpdateItemQuantityWrite(p) ==
    /\ cart[p].pc = "up_write"
    /\ LET pr == cart[p].product
           q == cart[p].quantity
       IN  IF q <= 0
           THEN /\ items' = [items EXCEPT ![pr] = NoItem]
                /\ cart' = [cart EXCEPT ![p].pc = "rc_items"]
           ELSE IF items[pr].quantity = 0
           THEN /\ items' = items
                /\ cart' = [cart EXCEPT ![p].pc = "done",
                                        ![p].err = "record not found"]
           ELSE /\ items' = [items EXCEPT ![pr] =
                     [items[pr] EXCEPT !.quantity = q,
                                       !.totalPrice = items[pr].unitPrice * q]]
                /\ cart' = [cart EXCEPT ![p].pc = "rc_items"]
    /\ UNCHANGED <<payVars, entity, totals>>

\* ---- TransactionUseCase.recalculateTransaction
\* GetItems and the sum of TotalPrice
RecalcItems(p) ==
    /\ cart[p].pc = "rc_items"
    /\ cart' = [cart EXCEPT ![p].pc = "rc_tx",
                            ![p].sum = Subtotal(items, Products)]
    /\ UNCHANGED <<payVars, entity, items, totals>>

\* GetByID and the new TotalAmount
RecalcTx(p) ==
    /\ cart[p].pc = "rc_tx"
    /\ cart' = [cart EXCEPT ![p].pc = "rc_save",
          ![p].t = [NoCartTx EXCEPT
                      !.status = tx.status,
                      !.total = cart[p].sum - totals.discount + totals.tax,
                      !.tax = totals.tax, !.discount = totals.discount]]
    /\ UNCHANGED <<payVars, entity, items, totals>>

\* transactionRepo.Update: Save() writes the whole row, status included
RecalcSave(p) ==
    /\ cart[p].pc = "rc_save"
    /\ totals' = [total |-> cart[p].t.total, tax |-> cart[p].t.tax,
                  discount |-> cart[p].t.discount]
    /\ tx' = [tx EXCEPT !.status = cart[p].t.status]
    /\ cart' = [cart EXCEPT ![p].pc = "done"]
    /\ UNCHANGED <<now, payments, qris, proc, charges, ops, limits, entity, items>>

\* the handler has written its response
CartFinish(p) ==
    /\ cart[p].pc = "done"
    /\ cart' = [cart EXCEPT ![p] = CartIdle]
    /\ UNCHANGED <<payVars, entity, items, totals>>

NextCart ==
    \/ \E p \in Procs : ChargeLoadTx(p)
    \/ \E p \in Procs : ChargeLoadItems(p)
    \/ \E p \in Procs : ChargeSend(p)
    \/ \E p \in Procs : AddItemToTransaction(p)
    \/ \E p \in Procs : AddItem(p)
    \/ \E p \in Procs : RemoveItemFromTransaction(p)
    \/ \E p \in Procs : RemoveItem(p)
    \/ \E p \in Procs : UpdateItemQuantity(p)
    \/ \E p \in Procs : UpdateItemQuantityWrite(p)
    \/ \E p \in Procs : RecalcItems(p)
    \/ \E p \in Procs : RecalcTx(p)
    \/ \E p \in Procs : RecalcSave(p)
    \/ \E p \in Procs : CartFinish(p)

\* cart edits and charge requests of concurrent handlers
SpecCart == InitCart /\ [][NextCart]_vars

\* ------------------------- cart edits beside payment and cancel requests
\* one payment or cancel request at a time, and one cart request beside it
InitEdit ==
    /\ Empty
    /\ OneItemCart
    /\ limits = [procs |-> {1}, ops |-> EditMaxOps, ticks |-> 0]

NextEdit ==
    \/ \E p \in limits.procs : GenStart(p)
    \/ \E p \in limits.procs : GenLookup(p)
    \/ \E p \in limits.procs : GenExistQR(p)
    \/ \E p \in limits.procs : GenCharge(p)
    \/ \E p \in limits.procs : GenInsert(p)
    \/ \E p \in limits.procs : GenQR(p)
    \/ \E p \in limits.procs : GenRollback(p)
    \/ \E p \in limits.procs : StatusStart(p)
    \/ \E p \in limits.procs : StatusCheck(p)
    \/ \E p \in limits.procs : StatusTxRead(p)
    \/ \E p \in limits.procs : StatusTxWrite(p)
    \/ \E p \in limits.procs : StatusWrite(p)
    \/ \E p \in limits.procs : CancelStart(p)
    \/ \E p \in limits.procs : CancelWrite(p)
    \/ \E p \in limits.procs : Finish(p)
    \/ \E p \in limits.procs : AddItemToTransaction(p)
    \/ \E p \in limits.procs : AddItem(p)
    \/ \E p \in limits.procs : RemoveItemFromTransaction(p)
    \/ \E p \in limits.procs : RemoveItem(p)
    \/ \E p \in limits.procs : UpdateItemQuantity(p)
    \/ \E p \in limits.procs : UpdateItemQuantityWrite(p)
    \/ \E p \in limits.procs : RecalcItems(p)
    \/ \E p \in limits.procs : RecalcTx(p)
    \/ \E p \in limits.procs : RecalcSave(p)
    \/ \E p \in limits.procs : CartFinish(p)

SpecEdit == InitEdit /\ [][NextEdit]_vars


\* ------------------------------------------------------------ properties
Returned(p, op) == proc[p].pc = "done" /\ proc[p].op = op

ActivePayments ==
    {i \in PayIds : payments[i].id # 0 /\ ~payments[i].deleted
                    /\ payments[i].status \in {"pending", "success"}}

\* C1: in every reachable state at most one payment row of the transaction
\* that is not soft-deleted has status pending or success, whatever way the
\* GenerateQRIS, GetPaymentStatus, RefreshQRIS and notification calls interleave
\* and also after an earlier payment expired or failed.
C1_AtMostOneActivePayment == Cardinality(ActivePayments) <= 1

\* a second insert has just been rejected while an older expired or failed row
\* and a newer pending row exist
C1_Witness ==
    /\ \E p \in Procs : proc[p].pc = "gen_reread"
    /\ \E i, j \in LivePayments(payments) :
          /\ payments[i].status \in {"expired", "failed"}
          /\ payments[j].status = "pending"

\* C2: a GenerateQRIS call whose payment insert was rejected by the unique
\* index returns no error but a payment together with its QR code (the pair of
\* the call that won), however the winner's inserts and the loser's re-reads
\* interleave.
C2_ConflictReturnsWinner ==
    \A p \in Procs :
       (Returned(p, "gen") /\ proc[p].conflict) =>
          /\ proc[p].res.err = ""
          /\ proc[p].res.pay.id # 0
          /\ proc[p].res.qr.id # 0
          /\ proc[p].res.qr.paymentID = proc[p].res.pay.id

\* C3: every GenerateQRIS call that returns without error returns a payment
\* together with a QR code whose payment reference is that payment.
C3_PaymentComesWithQR ==
    \A p \in Procs :
       (Returned(p, "gen") /\ proc[p].res.err = "") =>
          /\ proc[p].res.pay.id # 0
          /\ proc[p].res.qr.id # 0
          /\ proc[p].res.qr.paymentID = proc[p].res.pay.id

\* C4: when the transaction has a pending payment whose expiry has not passed
\* at the time GenerateQRIS looks the payment up, the call returns that payment
\* and its QR code, sends no charge to the gateway and writes no row.
C4_IdempotentRegeneration ==
    \A p \in Procs :
       (Returned(p, "gen") /\ proc[p].pre.live # {}) =>
          /\ proc[p].res.err = ""
          /\ proc[p].res.pay.id \in proc[p].pre.live
          /\ proc[p].res.qr = GetQRISCodeByPaymentID(qris, proc[p].res.pay.id)
          /\ ~proc[p].charged
          /\ proc[p].wrote = {}

\* C5: no step of a GetPaymentStatus or notification call changes the stored
\* status of a payment that was success, failed or cancelled when the call
\* started, whatever the gateway or the notification reports.
C5_TerminalStatusKept ==
    [][\A p \in Procs :
         (proc'[p] # proc[p] /\ proc'[p].op \in {"status", "notify"}) =>
            \A i \in proc'[p].pre.terminal :
               payments'[i].status = payments[i].status]_vars

\* a status call that started on a settled, failed or cancelled payment and
\* has run to its end
C5_Witness ==
    \E p \in Procs : Returned(p, "status") /\ proc[p].pre.terminal # {}

\* C6: no write loses an update: a payment stored as success is never written
\* back to pending, and its paidAt and external reference are never erased.
C6_NoLostUpdate ==
    [][\A i \in PayIds :
         payments[i].status = "success" =>
            /\ payments'[i].status # "pending"
            /\ payments'[i].paidAt # NoTime
            /\ payments'[i].externalID # ""]_vars

\* C7: in every reachable state a payment with status success belongs to a
\* transaction with status paid.
C7_SuccessImpliesPaid ==
    \A i \in LivePayments(payments) :
       payments[i].status = "success" => tx.status = "paid"

\* C8: when a pending payment's expiry has passed, the next GetPaymentStatus
\* call returns expired, leaves that payment stored as expired, calls no
\* gateway and leaves the transaction's status as it was.
C8_ExpiryTransition ==
    \A p \in Procs :
       (Returned(p, "status") /\ proc[p].pre.lapsed # {}) =>
          /\ proc[p].res.err = ""
          /\ proc[p].res.status = "expired"
          /\ \A i \in proc[p].pre.lapsed : payments[i].status = "expired"
          /\ proc[p].gw = ""
          /\ tx.status = proc[p].pre.tx

\* a refresh has returned without error for a payment that had a QR code and
\* was expired when looked up: stored as expired, or pending past its expiresAt
RefreshedExpired(p) ==
    /\ Returned(p, "refresh")
    /\ proc[p].res.err = ""
    /\ \/ proc[p].pre.ent.status = "expired"
       \/ proc[p].pre.ent.id \in proc[p].pre.lapsed
    /\ proc[p].pre.q # 0

\* C9: a RefreshQRIS call that succeeds on an expired payment P with QR code Q
\* leaves the number of payment rows and of QR rows as they were, P pending
\* with a later expiresAt and empty external reference and response, and Q
\* with the code of the new charge and the expiresAt of P.
C9_RefreshInPlace ==
    \A p \in Procs :
       RefreshedExpired(p) =>
          LET P == payments[proc[p].pre.ent.id]
              Q == qris[proc[p].pre.q]
          IN  /\ Cardinality({i \in PayIds : payments[i].id # 0}) = proc[p].pre.pays
              /\ Cardinality({j \in QrIds : qris[j].id # 0}) = proc[p].pre.qrs
              /\ P.status = "pending"
              /\ P.expiresAt > proc[p].pre.ent.expiresAt
              /\ P.externalID = "" /\ P.externalResponse = ""
              /\ Q.paymentID = P.id
              /\ Q.code = charges /\ Q.code # 0
              /\ Q.expiresAt = P.expiresAt
              /\ proc[p].res.pay.id = P.id /\ proc[p].res.qr.id = Q.id

\* a refresh of an expired payment that carried a gateway response
C9_Witness ==
    \E p \in Procs :
       /\ RefreshedExpired(p)
       /\ proc[p].pre.ent.status = "expired"
       /\ proc[p].pre.ent.externalResponse # ""

\* C10: GetPaymentStatus on a pending, unexpired payment maps the gateway's
\* status: settlement and capture give success with paidAt and the external
\* reference stored, pending gives pending, deny, cancel and expire give
\* failed, any other value gives pending with the payment row unchanged.
C10_StatusMapping ==
    \A p \in Procs :
       (/\ Returned(p, "status")
        /\ proc[p].pre.ent.id \in proc[p].pre.live
        /\ proc[p].gw \in GatewayStatuses) =>
          LET g == proc[p].gw
              row == payments[proc[p].pre.ent.id]
              st == proc[p].res.status
          IN  /\ g \in {"settlement", "capture"} =>
                    /\ st = "success" /\ row.status = "success"
                    /\ row.paidAt # NoTime /\ row.externalID = "mt-id"
              /\ g = "pending" => st = "pending" /\ row.status = "pending"
              /\ g \in {"deny", "cancel", "expire"} =>
                    st = "failed" /\ row.status = "failed"
              /\ g \notin {"settlement", "capture", "pending", "deny", "cancel", "expire"} =>
                    st = "pending" /\ row = proc[p].pre.ent

\* a status call that the gateway answered with expire
C10_Witness ==
    \E p \in Procs :
       /\ Returned(p, "status")
       /\ proc[p].pre.ent.id \in proc[p].pre.live
       /\ proc[p].gw = "expire"

\* a status call on a pending, unexpired payment whose gateway query failed
StatusGatewayFailed(p) ==
    /\ Returned(p, "status")
    /\ proc[p].pre.ent.id \in proc[p].pre.live
    /\ proc[p].gw = "error"

\* C11: when the gateway's status query fails during GetPaymentStatus on a
\* pending, unexpired payment, the call returns status pending without an
\* error, writes nothing, and the payment row and the transaction row are as
\* they were when the call started.
C11_GatewayFailureKeepsPending ==
    \A p \in Procs :
       StatusGatewayFailed(p) =>
          /\ proc[p].res.err = ""
          /\ proc[p].res.status = "pending"
          /\ proc[p].wrote = {}
          /\ payments[proc[p].pre.ent.id] = proc[p].pre.ent
          /\ tx.status = proc[p].pre.tx

C11_Witness == \E p \in Procs : StatusGatewayFailed(p)

\* a handler has sent the charge request it built from the transaction it loaded
ChargeSent(p) == cart[p].pc = "done" /\ cart[p].op = "charge"

\* C12: for the transaction a charge request was built from, with items
\* summing to X, tax Y and discount Z, the line items of the request are one
\* entry per item, one tax entry when Y > 0 and one discount entry when Z > 0,
\* and their prices times quantities sum to X - Z + Y, in minor units.
C12_LineItemsSum ==
    \A p \in Procs :
       ChargeSent(p) =>
          LET t == cart[p].t
              lines == cart[p].req.lines
              n == Cardinality({pr \in Products : t.items[pr].quantity > 0})
          IN  /\ LineSum(lines) = Subtotal(t.items, Products) - t.discount + t.tax
              /\ Len(lines) = n + (IF t.tax > 0 THEN 1 ELSE 0)
                                + (IF t.discount > 0 THEN 1 ELSE 0)

\* a request for a cart with items, tax and a discount
C12_Witness ==
    \E p \in Procs :
       /\ ChargeSent(p)
       /\ cart[p].t.tax > 0 /\ cart[p].t.discount > 0
       /\ \E pr \in Products : cart[p].t.items[pr].quantity > 1

\* C13: in every charge request sent, the gross amount equals the sum of price
\* times quantity over the line items of the same request, as the gateway
\* receives them after the conversion of each amount to an integer, also when
\* cart edits run beside the call.
C13_GrossEqualsLineItems ==
    \A p \in Procs :
       ChargeSent(p) => cart[p].wire.gross = LineSum(cart[p].wire.lines)

\* the gateway accepted a charge of GenerateQRIS call p, which had found no
\* payment row for the transaction
ChargedFirst(p) ==
    /\ proc[p].op = "gen"
    /\ proc[p].pre.pays = 0
    /\ proc[p].charged
    /\ proc[p].res.err # "PaymentGenerationFailed"

\* C14: concurrent GenerateQRIS calls on a pending transaction that has no
\* payment yet create no duplicate charge: the gateway accepts the charge of
\* at most one of them.
C14_NoDuplicateCharge ==
    Cardinality({p \in Procs : ChargedFirst(p)}) <= 1

\* a GenerateQRIS call has returned whose transaction was missing or not pending
GenOnUnusableTx(p) == Returned(p, "gen") /\ proc[p].pre.tx # "pending"

\* C15: GenerateQRIS fails with TransactionNotFound when the transaction does
\* not exist and with an invalid-state error when its status is not pending
\* (paid, cancelled or expired); in both cases it calls no gateway and writes
\* no payment or QR code row.
C15_UnusableTransactionRejected ==
    \A p \in Procs :
       GenOnUnusableTx(p) =>
          /\ proc[p].res.err = IF proc[p].pre.tx = "none"
                               THEN "TransactionNotFound" ELSE "InvalidState"
          /\ proc[p].res.pay = NoPay /\ proc[p].res.qr = NoQR
          /\ ~proc[p].charged
          /\ proc[p].wrote = {}

\* a call on a paid or cancelled transaction that has a payment
C15_Witness ==
    \E p \in Procs :
       /\ GenOnUnusableTx(p)
       /\ proc[p].pre.tx \in {"paid", "cancelled"}
       /\ LivePayments(payments) # {}

\* a GenerateQRIS call has returned whose charge the gateway rejected
GenChargeFailed(p) == Returned(p, "gen") /\ proc[p].gw = "error"

\* C16: when the charge request fails during GenerateQRIS the call returns an
\* error, and the transaction has no more payment rows and no more QR code
\* rows than when the call looked its payment up.
C16_ChargeFailureLeavesNoRows ==
    \A p \in Procs :
       GenChargeFailed(p) =>
          /\ proc[p].res.err = "PaymentGenerationFailed"
          /\ Cardinality({i \in PayIds : payments[i].id # 0}) = proc[p].pre.pays
          /\ Cardinality({j \in QrIds : qris[j].id # 0}) = proc[p].pre.qrs
          /\ "qr" \notin proc[p].wrote

\* the charge failed after an earlier payment had expired
C16_Witness ==
    \E p \in Procs : GenChargeFailed(p) /\ proc[p].pre.ent.id # 0

\* a GenerateQRIS call that has returned after its payment insert succeeded
\* and its QR code insert failed
GenQRInsertFailed(p) ==
    /\ Returned(p, "gen")
    /\ proc[p].res.err = "QRISCodeNotSaved"

\* C17: once a GenerateQRIS call whose QR code insert failed has returned, it
\* has returned an error and every live payment row of the transaction has a
\* QR code row.
C17_NoOrphanedPayment ==
    \A p \in Procs :
       GenQRInsertFailed(p) =>
          /\ proc[p].res.err # ""
          /\ proc[p].res.pay.id = 0
          /\ \A i \in LivePayments(payments) :
                GetQRISCodeByPaymentID(qris, i).id # 0

\* C18: every step of a RefreshQRIS call whose payment is success, failed or
\* cancelled ends the call with an error, sends no charge to the gateway and
\* leaves the payment rows and the QR code rows as they are.
C18_RefreshRejectedWhenSettled ==
    [][\A p \in Procs :
         (/\ proc'[p] # proc[p]
          /\ proc'[p].op = "refresh"
          /\ proc'[p].pre.ent.status \in TerminalStatuses) =>
            /\ proc'[p].pc = "done"
            /\ proc'[p].res.err # ""
            /\ proc'[p].res.pay.id = 0
            /\ ~proc'[p].charged
            /\ charges' = charges
            /\ payments' = payments
            /\ qris' = qris]_vars

\* a RefreshQRIS call has returned that found a failed payment with its QR code
C18_Witness ==
    \E p \in Procs :
       /\ Returned(p, "refresh")
       /\ proc[p].pre.ent.status = "failed"
       /\ proc[p].pre.q # 0
       /\ proc[p].res.err = "InvalidState"

\* C19: no step of a GenerateQRIS call changes the stored status of a payment
\* that is success, failed or cancelled, and every step that changes the
\* status of a payment, other than the reset written by RefreshQRIS, changes
\* a payment that was pending.
C19_StatusChangesStartFromPending ==
    [][\A i \in PayIds :
         (payments[i].id # 0 /\ payments'[i].status # payments[i].status) =>
            /\ \A p \in Procs :
                  (proc[p].op = "gen" /\ proc'[p] # proc[p]) =>
                     payments[i].status \notin TerminalStatuses
            /\ \/ payments[i].status = "pending"
               \/ \E p \in Procs : proc[p].op = "refresh" /\ proc'[p] # proc[p]]_vars

\* a notification for the order of a payment that was pending has been handled
NotifiedPending(p) ==
    /\ Returned(p, "notify")
    /\ proc[p].pre.ent.id # 0
    /\ proc[p].pre.ent.status = "pending"

\* C20: after HandlePaymentNotification has handled a notification for a
\* pending payment, the payment is success and its transaction paid when the
\* notification carried settlement or capture, and the payment is failed when
\* it carried deny, cancel or expire.
C20_NotificationAppliesMapping ==
    \A p \in Procs :
       NotifiedPending(p) =>
          LET P == payments[proc[p].pre.ent.id] IN
          /\ proc[p].gw \in {"settlement", "capture"} =>
                P.status = "success" /\ tx.status = "paid"
          /\ proc[p].gw \in {"deny", "cancel", "expire"} =>
                P.status = "failed"

\* the payment the status lookup selects has passed its expiresAt
PolledPaymentLapsed ==
    LET e == GetPaymentByTransactionID(payments)
    IN  e.id # 0 /\ now > e.expiresAt

\* the polling client p has received a status other than pending
ReceivedFinal(p) ==
    /\ Returned(p, "status")
    /\ proc[p].res.err = ""
    /\ proc[p].res.status \in {"success", "failed", "expired"}

\* the payment row has been withdrawn by the rollback of GenerateQRIS
PaymentWithdrawn == GetPaymentByTransactionID(payments).id = 0

\* C21: once time has passed the expiresAt of the payment, every client that
\* keeps polling GetPaymentStatus eventually receives success, failed or
\* expired (unless the payment row itself is withdrawn); and no
\* GetPaymentStatus call whose gateway request failed returns an error: it
\* returns the status pending.
C21_PollingEnds ==
    /\ \A p \in Procs :
          PolledPaymentLapsed ~> (ReceivedFinal(p) \/ PaymentWithdrawn)
    /\ [](\A p \in Procs :
            (Returned(p, "status") /\ proc[p].gw = "error") =>
               proc[p].res.err = "" /\ proc[p].res.status = "pending")

\* the expiresAt of the payment has passed and both polling clients have
\* received a final status, one of them expired
C21_Witness ==
    \E p \in Procs :
       /\ PolledPaymentLapsed
       /\ ReceivedFinal(p)
       /\ proc[p].res.status = "expired"
       /\ \E q \in Procs \ {p} : ReceivedFinal(q)

\* a GenerateQRIS call has returned the payment and the QR code it created
GenCreated(p) ==
    /\ Returned(p, "gen")
    /\ proc[p].res.err = ""
    /\ {"payment", "qr"} \subseteq proc[p].wrote

\* C26: the QR code created by a GenerateQRIS call has the expiresAt of the
\* payment created by the same call, in the response and in the stored rows.
C26_QRExpiryEqualsPaymentExpiry ==
    \A p \in Procs :
       GenCreated(p) =>
          /\ proc[p].res.qr.expiresAt = proc[p].res.pay.expiresAt
          /\ qris[proc[p].res.qr.id].paymentID = proc[p].res.pay.id
          /\ qris[proc[p].res.qr.id].expiresAt = proc[p].res.pay.expiresAt

\* a call that looks its payment up by transaction has returned, and a
\* pending, unexpired payment existed when it did the lookup
LookedUpWithPending(p) ==
    /\ proc[p].pc = "done"
    /\ proc[p].op \in {"gen", "status", "refresh"}
    /\ proc[p].pre.live # {}

\* C27: when the transaction has a pending, unexpired payment, the lookup of
\* GetPaymentStatus, RefreshQRIS and GenerateQRIS selects it: GetPaymentStatus
\* does not then report expired, and GenerateQRIS returns that payment.
C27_LookupSelectsPending ==
    \A p \in Procs :
       LookedUpWithPending(p) =>
          /\ proc[p].pre.ent.id \in proc[p].pre.live
          /\ proc[p].op = "status" => proc[p].res.status # "expired"
          /\ proc[p].op = "gen" => proc[p].res.pay.id \in proc[p].pre.live

\* the step is a call of a status method of the Transaction entity
StatusMethodCalled ==
    /\ entity' # entity
    /\ entity'.call.op \in {"Cancel", "MarkAsPaid", "MarkAsExpired"}

\* the status each status method sets
TargetStatus(op) ==
    CASE op = "Cancel" -> "cancelled"
      [] op = "MarkAsPaid" -> "paid"
      [] op = "MarkAsExpired" -> "expired"

\* C22: Transaction.Cancel, MarkAsPaid and MarkAsExpired succeed on a pending
\* transaction and set its status; on a paid, cancelled or expired
\* transaction each returns an error and leaves the transaction as it is.
C22_StatusMethodsNeedPending ==
    [][StatusMethodCalled =>
         IF entity.t.status = "pending"
         THEN /\ entity'.err = ""
              /\ entity'.t = [entity.t EXCEPT !.status = TargetStatus(entity'.call.op)]
         ELSE /\ entity'.err # ""
              /\ entity'.t = entity.t]_vars

\* MarkAsExpired has been rejected on a paid transaction that holds an item
C22_Witness ==
    /\ entity.call.op = "MarkAsExpired"
    /\ entity.err # ""
    /\ entity.t.status = "paid"
    /\ entity.t.items # <<>>

\* C30: after every call of Transaction.AddItem, RemoveItem, ApplyDiscount or
\* ApplyTax the discount is at most the subtotal of the items and the total
\* amount is not negative, and a rejected ApplyDiscount leaves the discount
\* and the total amount as they were.
C30_DiscountWithinSubtotal ==
    [][entity'.call.op \in {"AddItem", "RemoveItem", "ApplyDiscount", "ApplyTax"} =>
         /\ entity'.t.discount <= getSubtotal(entity'.t.items)
         /\ entity'.t.total >= 0
         /\ (entity'.call.op = "ApplyDiscount" /\ entity'.err # "") =>
               /\ entity'.t.discount = entity.t.discount
               /\ entity'.t.total = entity.t.total]_vars

\* an AddItem call that the contract rejects: no positive quantity, a product
\* that is inactive or out of stock, or less stock than the quantity
UnfitAdd(call) ==
    \/ call.quantity <= 0
    \/ ~IsAvailable(call.product)
    \/ ~CanFulfillQuantity(call.product, call.quantity)

\* C25: an unfit addition fails and changes nothing: Transaction.AddItem
\* returns an error and leaves the entity as it was, and no step of an
\* AddItemToTransaction call for a product that cannot supply the quantity
\* changes the item rows or the amounts of the transaction.
C25_UnfitAddRejected ==
    [][/\ (entity' # entity /\ entity'.call.op = "AddItem"
                            /\ UnfitAdd(entity'.call)) =>
             (entity'.err # "" /\ entity'.t = entity.t)
       /\ \A p \in Procs :
             (cart'[p] # cart[p] /\ cart[p].op = "add" /\ ~cart[p].fits) =>
                (items' = items /\ totals' = totals)]_vars

\* C29: the Amount of the Payment built by a GenerateQRIS call equals the gross
\* amount of the charge request the same call sends, which is the total amount
\* of the transaction it loaded, whatever amount the request carried.
C29_PaymentAmountIsGrossAmount ==
    \A p \in Procs :
       ChargeSent(p) =>
          /\ cart[p].req.gross = cart[p].t.total
          /\ cart[p].payAmount = cart[p].req.gross

\* no AddItemToTransaction, RemoveItemFromTransaction or UpdateItemQuantity
\* call is between its first step and its return
NoItemOperationInProgress ==
    \A p \in Procs :
       cart[p].op \in {"add", "remove", "update"} => cart[p].pc = "done"

\* C24: whenever no item operation is in progress, the stored total amount is
\* the sum of the item totals minus the discount plus the tax amount, also
\* after item operations have overlapped.
C24_TotalMatchesItems ==
    NoItemOperationInProgress =>
       totals.total = CalculateTotal(items, totals.discount, totals.tax)

\* C23: no step adds or removes an item row or changes its quantity while
\* the stored status of the transaction is paid, cancelled or expired.
C23_ItemsChangeOnlyWhilePending ==
    [][items' # items => tx.status = "pending"]_vars

\* C28: once the stored status of the transaction is paid it stays paid.
C28_PaidIsFinal ==
    [][tx.status = "paid" => tx'.status = "paid"]_vars
====
